---- MODULE Spec2Model ----
(***************************************************************************)
(* The Configurator of src/js/main.js: three registries (meshes, materials,*)
(* textures), the cross references between them, and the renderable        *)
(* objects of the 3D engine that its operations write to.                  *)
(*                                                                         *)
(* Indices are the 0-based JavaScript indices.  Reading an array out of    *)
(* range, or with an omitted argument, yields undefined and throws         *)
(* nothing; reading or writing a property of undefined or null throws a    *)
(* TypeError.                                                              *)
(***************************************************************************)
EXTENDS Integers, Sequences, FiniteSets, TLC

\* Bound of the model: the entries registered in all (meshes, materials and
\* the textures added after the sentinel).
MaxEntries == 5
\* Of these, at most so many in one registry.
MaxMeshes == MaxEntries - 3
MaxMaterials == MaxEntries - 3
MaxTextures == MaxEntries - 4

\* JavaScript's undefined (an out-of-range read, an omitted argument) and null.
Undefined == -1
Null == 0

\* The material a mesh delivered by the loader already carries (or Null).
LoaderMaterial == 9
\* The scene of createScene: four materials, two textures besides the sentinel.
NumSceneMaterials == 4
NumSceneTextures == 2

VARIABLES
  meshes,      \* #meshes: sequence of [mesh |-> [material], materialData]
  materials,   \* #materials: sequence of [material, textureIndex]
  textures,    \* #textures: sequence of [name, diffuseTexture, bumpTexture]
  engine,      \* renderable materials: handle -> [diffuseTexture, bumpTexture]
  call,        \* the last call made: [op, args]
  outcome,     \* how it ended: "ok" or "TypeError"
  result,      \* what it returned
  memo,        \* history (Memory): material index -> texture set right after setMaterial
  given,       \* history: per mesh, the material index it was last given
  loaded,      \* page: the ImportMesh callback has run
  lidMat, potMat, lidTex, potTex   \* page: the values of the four dropdowns

confVars == <<meshes, materials, textures, engine>>
histVars == <<call, outcome, result, memo, given>>
pageVars == <<loaded, lidMat, potMat, lidTex, potTex>>
vars == <<confVars, histVars, pageVars>>

----------------------------------------------------------------------------
\* Renderable objects

\* Material handles: the k-th registered material is handle k.
MaterialHandles == (1..(IF MaxEntries > NumSceneMaterials THEN MaxEntries
                        ELSE NumSceneMaterials)) \cup {LoaderMaterial}

NoTextures == [diffuseTexture |-> Null, bumpTexture |-> Null]

\* Texture handles of the k-th added texture (k >= 1), diffuse and bump.
DiffuseHandle(k) == 2 * k - 1
BumpHandle(k) == 2 * k

TextureName(k) == IF k = 1 THEN "Stones" ELSE IF k = 2 THEN "Rock" ELSE "Other"

----------------------------------------------------------------------------
\* The Configurator.  c is the program state
\* [meshes, materials, textures, engine, outcome, result].

Sentinel == [name |-> "None", diffuseTexture |-> Null, bumpTexture |-> Null]

InRange(arr, i) == i \in 0..(Len(arr) - 1)

\* arr[i] as a reference: the index itself, or Undefined when out of range.
Ref(arr, i) == IF InRange(arr, i) THEN i ELSE Undefined

\* A default parameter value: used when the argument is omitted.
Default(arg, value) == IF arg = Undefined THEN value ELSE arg

Ok(c, r) == [c EXCEPT !.outcome = "ok", !.result = r]
Throw(c) == [c EXCEPT !.outcome = "TypeError", !.result = Undefined]

\* Variant: an index out of range falls back to the first material.
addMeshFallback(c, mesh, materialIndex) ==
  Ok([c EXCEPT !.meshes = Append(@, [mesh |-> mesh,
                     materialData |-> IF materialIndex = Undefined
                                         \/ InRange(c.materials, materialIndex)
                                      THEN Ref(c.materials, materialIndex)
                                      ELSE Ref(c.materials, 0)])],
     Undefined)

addMesh(c, mesh, materialIndex) ==
  Ok([c EXCEPT !.meshes = Append(@, [mesh |-> mesh,
                     materialData |-> Ref(c.materials, materialIndex)])],
     Undefined)

\* Variant: no default for an omitted texture index.
addMaterialNoDefault(c, material, textureIndex) ==
  Ok([c EXCEPT !.materials = Append(@, [material |-> material,
                     textureIndex |-> textureIndex])],
     Undefined)

addMaterial(c, material, textureIndex) ==
  Ok([c EXCEPT !.materials = Append(@, [material |-> material,
                     textureIndex |-> Default(textureIndex, 0)])],
     Undefined)

\* Variant: the entry is put first (unshift) instead of last (push).
addTextureFirst(c, name, diffuseTexture, bumpTexture) ==
  Ok([c EXCEPT !.textures = <<[name |-> name,
                     diffuseTexture |-> Default(diffuseTexture, Null),
                     bumpTexture |-> Default(bumpTexture, Null)]>> \o @],
     Undefined)

addTexture(c, name, diffuseTexture, bumpTexture) ==
  Ok([c EXCEPT !.textures = Append(@, [name |-> name,
                     diffuseTexture |-> Default(diffuseTexture, Null),
                     bumpTexture |-> Default(bumpTexture, Null)])],
     Undefined)

\* Variant: setMaterial returns the sentinel index.
SetMaterialResultSentinel(c, materialData) == 0

\* Line 32: the value setMaterial returns.
SetMaterialResult(c, materialData) == c.materials[materialData + 1].textureIndex

\* Variant: line 29 left out, the renderable mesh keeps its material.
setMaterialEntryOnly(c, meshIndex, materialIndex) ==
  LET materialData == Ref(c.materials, materialIndex)
      meshData == Ref(c.meshes, meshIndex)
  IN  IF meshData = Undefined \/ materialData = Undefined
      THEN Throw(c)
      ELSE Ok([c EXCEPT !.meshes[meshData + 1].materialData = materialData],
              SetMaterialResult(c, materialData))

\* Variant: the mesh gets a copy of the material entry, added to the registry.
setMaterialCopies(c, meshIndex, materialIndex) ==
  LET materialData == Ref(c.materials, materialIndex)
      meshData == Ref(c.meshes, meshIndex)
  IN  IF meshData = Undefined \/ materialData = Undefined
      THEN Throw(c)
      ELSE Ok([c EXCEPT
                 !.materials = Append(@, c.materials[materialData + 1]),
                 !.meshes[meshData + 1].mesh.material =
                     c.materials[materialData + 1].material,
                 !.meshes[meshData + 1].materialData = Len(c.materials)],
              SetMaterialResult(c, materialData))

setMaterial(c, meshIndex, materialIndex) ==
  LET materialData == Ref(c.materials, materialIndex)
      meshData == Ref(c.meshes, meshIndex)
  IN  IF meshData = Undefined \/ materialData = Undefined
      THEN Throw(c)                                       \* line 29
      ELSE Ok([c EXCEPT
                 !.meshes[meshData + 1].mesh.material =
                     c.materials[materialData + 1].material,
                 !.meshes[meshData + 1].materialData = materialData],
              SetMaterialResult(c, materialData))

\* Lines 38-39: the texture entry's handles written to a renderable material.
ApplyTexture(c, material, textureData) ==
  [c.engine EXCEPT ![material] =
      [diffuseTexture |-> c.textures[textureData + 1].diffuseTexture,
       bumpTexture |-> c.textures[textureData + 1].bumpTexture]]

\* Variant: line 40 left out, the texture index is not recorded.
RecordTextureNowhere(c, materialData, textureIndex) == c.materials

\* Line 40: the texture index recorded on a material entry.
RecordTexture(c, materialData, textureIndex) ==
  [c.materials EXCEPT ![materialData + 1].textureIndex = textureIndex]

setTexture(c, meshIndex, textureIndex) ==
  LET textureData == Ref(c.textures, textureIndex)
      meshData == Ref(c.meshes, meshIndex)
  IN  IF meshData = Undefined THEN Throw(c)                \* line 38
      ELSE LET m == c.meshes[meshData + 1]
           IN  IF m.mesh.material = Null \/ textureData = Undefined
               THEN Throw(c)                               \* line 38
               ELSE LET applied == [c EXCEPT !.engine =
                            ApplyTexture(c, m.mesh.material, textureData)]
                    IN  IF m.materialData = Undefined
                        THEN Throw(applied)                \* line 40
                        ELSE Ok([applied EXCEPT !.materials =
                                   RecordTexture(c, m.materialData, textureIndex)],
                                Undefined)

\* Variant: compares the renderable materials the two meshes carry.
SameRenderable(c, mesh1, mesh2) ==
  c.meshes[mesh1 + 1].mesh.material = c.meshes[mesh2 + 1].mesh.material

\* Variant: equal only when both meshes hold an entry.
SameEntryHeld(c, mesh1, mesh2) ==
  /\ c.meshes[mesh1 + 1].materialData # Undefined
  /\ c.meshes[mesh1 + 1].materialData = c.meshes[mesh2 + 1].materialData

\* Line 44: reference equality of the two material entries.
SameEntry(c, mesh1, mesh2) ==
  c.meshes[mesh1 + 1].materialData = c.meshes[mesh2 + 1].materialData

haveSameMaterial(c, mesh1, mesh2) ==
  IF Ref(c.meshes, mesh1) = Undefined \/ Ref(c.meshes, mesh2) = Undefined
  THEN Throw(c)
  ELSE Ok(c, SameEntry(c, mesh1, mesh2))

----------------------------------------------------------------------------
\* The state as one record, and the log of calls.

State ==
  [meshes |-> meshes, materials |-> materials, textures |-> textures,
   engine |-> engine, outcome |-> outcome, result |-> result,
   call |-> call, memo |-> memo, given |-> given]

Is(h) ==
  /\ meshes = h.meshes
  /\ materials = h.materials
  /\ textures = h.textures
  /\ engine = h.engine
  /\ outcome = h.outcome
  /\ result = h.result
  /\ call = h.call
  /\ memo = h.memo
  /\ given = h.given

Becomes(h) ==
  /\ meshes' = h.meshes
  /\ materials' = h.materials
  /\ textures' = h.textures
  /\ engine' = h.engine
  /\ outcome' = h.outcome
  /\ result' = h.result
  /\ call' = h.call
  /\ memo' = h.memo
  /\ given' = h.given

MaterialIndices == 0..(Cardinality(MaterialHandles) - 2)

\* memo[i] = t: setMaterial(m, i) was followed immediately by setTexture(m, t),
\* both completing, and no setTexture was called since on a mesh holding i.
MemoAfter(before, op, args, after) ==
  IF op = "setTexture" /\ InRange(before.meshes, args[1])
  THEN LET held == before.meshes[args[1] + 1].materialData
       IN  IF after.outcome = "ok" /\ before.outcome = "ok"
              /\ before.call.op = "setMaterial"
              /\ before.call.args = <<args[1], held>>
           THEN [before.memo EXCEPT ![held] = args[2]]
           ELSE IF held # Undefined
                THEN [before.memo EXCEPT ![held] = Undefined]
                ELSE before.memo
  ELSE before.memo

\* given[k]: the material index of the last completed addMesh or setMaterial
\* call that gave mesh k a material entry (Undefined: none did).
GivenAfter(before, op, args, after) ==
  IF op = "addMesh"
  THEN Append(before.given, Ref(before.materials, args[2]))
  ELSE IF op = "setMaterial" /\ after.outcome = "ok"
       THEN [before.given EXCEPT ![args[1] + 1] = args[2]]
       ELSE before.given

\* The log keeps the arguments of the calls that completed and changed something.
Log(op, args, after) ==
  [after EXCEPT !.call = [op |-> op,
                          args |-> IF after.outcome = "ok" /\ op # "haveSameMaterial"
                                   THEN args ELSE <<>>]]

\* The history of a call with these arguments that took `before` to `after`.
History(before, op, args, after) ==
  [after EXCEPT !.given = GivenAfter(before, op, args, after)]

\* The same, keeping memo as well.
Remembered(before, op, args, after) ==
  [History(before, op, args, after) EXCEPT
      !.memo = MemoAfter(before, op, args, after)]

CallAddMesh(h, mesh, materialIndex) ==
  Log("addMesh", <<mesh.material, materialIndex>>, addMesh(h, mesh, materialIndex))
CallAddMaterial(h, material, textureIndex) ==
  Log("addMaterial", <<material, textureIndex>>,
      addMaterial(h, material, textureIndex))
CallAddTexture(h, name, diffuseTexture, bumpTexture) ==
  Log("addTexture", <<diffuseTexture, bumpTexture>>,
      addTexture(h, name, diffuseTexture, bumpTexture))
CallSetMaterial(h, meshIndex, materialIndex) ==
  Log("setMaterial", <<meshIndex, materialIndex>>,
      setMaterial(h, meshIndex, materialIndex))
CallSetTexture(h, meshIndex, textureIndex) ==
  Log("setTexture", <<meshIndex, textureIndex>>,
      setTexture(h, meshIndex, textureIndex))
CallHaveSameMaterial(h, mesh1, mesh2) ==
  Log("haveSameMaterial", <<mesh1, mesh2>>, haveSameMaterial(h, mesh1, mesh2))

----------------------------------------------------------------------------
\* The Configurator called in any order (specification Spec).

\* new Configurator(): lines 2-8.
New ==
  [meshes |-> <<>>, materials |-> <<>>, textures |-> <<Sentinel>>,
   engine |-> [h \in MaterialHandles |-> NoTextures],
   outcome |-> "ok", result |-> Undefined,
   call |-> [op |-> "new", args |-> <<>>],
   memo |-> [i \in MaterialIndices |-> Undefined], given |-> <<>>]

\* A mesh handle as the caller passes it: with the material it carries.
MeshArgs == {[material |-> h] : h \in {Null, LoaderMaterial}}

Init ==
  /\ Is(New)
  /\ loaded = FALSE
  /\ lidMat = 0 /\ potMat = 0 /\ lidTex = 0 /\ potTex = 0

Entries == Len(meshes) + Len(materials) + Len(textures) - 1

AddMesh ==
  /\ Entries < MaxEntries /\ Len(meshes) < MaxMeshes
  /\ \E mesh \in MeshArgs, materialIndex \in {Undefined} \cup (0..Len(materials)) :
        Becomes(History(State, "addMesh", <<mesh.material, materialIndex>>,
                        CallAddMesh(State, mesh, materialIndex)))
  /\ UNCHANGED pageVars

AddMaterial ==
  /\ Entries < MaxEntries /\ Len(materials) < MaxMaterials
  /\ \E textureIndex \in {Undefined, 1} :
        Becomes(CallAddMaterial(State, Len(materials) + 1, textureIndex))
  /\ UNCHANGED pageVars

AddTexture ==
  /\ Entries < MaxEntries /\ Len(textures) - 1 < MaxTextures
  /\ LET k == Len(textures)
     IN  \E given_handles \in BOOLEAN :
            Becomes(CallAddTexture(State, TextureName(k),
                      IF given_handles THEN DiffuseHandle(k) ELSE Undefined,
                      IF given_handles THEN BumpHandle(k) ELSE Undefined))
  /\ UNCHANGED pageVars

SetMaterial ==
  /\ \E meshIndex \in 0..Len(meshes), materialIndex \in 0..Len(materials) :
        Becomes(History(State, "setMaterial", <<meshIndex, materialIndex>>,
                        CallSetMaterial(State, meshIndex, materialIndex)))
  /\ UNCHANGED pageVars

SetTexture ==
  /\ \E meshIndex \in 0..Len(meshes), textureIndex \in 0..Len(textures) :
        Becomes(History(State, "setTexture", <<meshIndex, textureIndex>>,
                        CallSetTexture(State, meshIndex, textureIndex)))
  /\ UNCHANGED pageVars

\* setTexture, with memo kept (specification Memory).
SetTextureRemembered ==
  /\ \E meshIndex \in 0..Len(meshes), textureIndex \in 0..Len(textures) :
        Becomes(Remembered(State, "setTexture", <<meshIndex, textureIndex>>,
                           CallSetTexture(State, meshIndex, textureIndex)))
  /\ UNCHANGED pageVars

HaveSameMaterial ==
  /\ \E mesh1 \in 0..Len(meshes), mesh2 \in 0..Len(meshes) :
        Becomes(CallHaveSameMaterial(State, mesh1, mesh2))
  /\ UNCHANGED pageVars

Next ==
  \/ AddMesh
  \/ AddMaterial
  \/ AddTexture
  \/ SetMaterial
  \/ SetTexture
  \/ HaveSameMaterial

NextMemory ==
  \/ AddMesh
  \/ AddMaterial
  \/ AddTexture
  \/ SetMaterial
  \/ SetTextureRemembered
  \/ HaveSameMaterial

Spec == Init /\ [][Next]_vars

Memory == Init /\ [][NextMemory]_vars

----------------------------------------------------------------------------
\* The page of main.js (specification Page): createScene and initControlPanel
\* have run, the meshes arrive later in the ImportMesh callback, and the user
\* changes the dropdowns.  A dropdown's value is the string of an index; as a
\* property key and as a select value the string and the number are the same,
\* so the model keeps the number.

\* createScene, lines 65-86.
Scene ==
  LET m0 == CallAddMaterial(New, 1, Undefined)
      m1 == CallAddMaterial(m0, 2, Undefined)
      m2 == CallAddMaterial(m1, 3, Undefined)
      m3 == CallAddMaterial(m2, NumSceneMaterials, Undefined)
      t1 == CallAddTexture(m3, TextureName(1), DiffuseHandle(1), BumpHandle(1))
  IN  CallAddTexture(t1, TextureName(NumSceneTextures),
                     DiffuseHandle(NumSceneTextures), BumpHandle(NumSceneTextures))

\* Assigning a select's value: a value that is no option selects nothing.
SelectValue(value, options) == IF value \in options THEN value ELSE Undefined

MaterialOptions == 0..(Len(materials) - 1)     \* lines 104-111
TextureOptions == 0..(Len(textures) - 1)       \* lines 113-120

InitPage ==
  /\ Is(Scene)
  /\ loaded = FALSE
  /\ lidMat = 0 /\ potMat = 0 /\ lidTex = 0 /\ potTex = 0

\* Lines 89-92.
ImportMeshCallback ==
  /\ ~loaded
  /\ loaded' = TRUE
  /\ \E pot \in MeshArgs, lid \in MeshArgs :
        Becomes(CallAddMesh(CallAddMesh(State, pot, 0), lid, 0))
  /\ UNCHANGED <<lidMat, potMat, lidTex, potTex>>

\* Lines 123-125.
LidMatChange ==
  \E value \in MaterialOptions \ {lidMat} :
     LET h == CallSetMaterial(State, 1, value)
     IN  /\ Becomes(h)
         /\ lidMat' = value
         /\ lidTex' = IF h.outcome = "ok"
                      THEN SelectValue(h.result, TextureOptions) ELSE lidTex
         /\ UNCHANGED <<loaded, potMat, potTex>>

\* Lines 127-129.
PotMatChange ==
  \E value \in MaterialOptions \ {potMat} :
     LET h == CallSetMaterial(State, 0, value)
     IN  /\ Becomes(h)
         /\ potMat' = value
         /\ potTex' = IF h.outcome = "ok"
                      THEN SelectValue(h.result, TextureOptions) ELSE potTex
         /\ UNCHANGED <<loaded, lidMat, lidTex>>

\* The body of a texture handler: setTexture, then haveSameMaterial(0, 1)
\* unless setTexture threw.
TextureHandler(h, meshIndex, value) ==
  LET set == CallSetTexture(h, meshIndex, value)
  IN  IF set.outcome = "ok" THEN CallHaveSameMaterial(set, 0, 1) ELSE set

\* Lines 131-136.
LidTexChange ==
  \E value \in TextureOptions \ {lidTex} :
     LET h == TextureHandler(State, 1, value)
     IN  /\ Becomes(h)
         /\ lidTex' = value
         /\ potTex' = IF h.outcome = "ok" /\ h.result = TRUE
                      THEN SelectValue(value, TextureOptions) ELSE potTex
         /\ UNCHANGED <<loaded, lidMat, potMat>>

\* Lines 138-143.
PotTexChange ==
  \E value \in TextureOptions \ {potTex} :
     LET h == TextureHandler(State, 0, value)
     IN  /\ Becomes(h)
         /\ potTex' = value
         /\ lidTex' = IF h.outcome = "ok" /\ h.result = TRUE
                      THEN SelectValue(value, TextureOptions) ELSE lidTex
         /\ UNCHANGED <<loaded, lidMat, potMat>>

NextPage ==
  \/ ImportMeshCallback
  \/ LidMatChange
  \/ PotMatChange
  \/ LidTexChange
  \/ PotTexChange

Page == InitPage /\ [][NextPage]_vars

----------------------------------------------------------------------------
\* Properties.

MeshIndices == 0..(Len(meshes) - 1)
MaterialEntries == 0..(Len(materials) - 1)

\* The last call was op and it completed.
Did(op) == call.op = op /\ outcome = "ok"

\* The material entry mesh k holds (Undefined: none).
Held(k) == meshes[k + 1].materialData

\* C1: after setMaterial(m, i) followed immediately by setTexture(m, t), and no
\* setTexture since on a mesh holding material i, a setMaterial that assigns
\* material i to any mesh returns t.
C1_TextureMemory ==
  \A i \in MaterialIndices :
     (Did("setMaterial") /\ call.args[2] = i /\ memo[i] # Undefined)
        => result = memo[i]

\* A setMaterial(m', 0) that returned the remembered texture 1 while the other
\* mesh holds another entry.
C1_Witness ==
  /\ Did("setMaterial") /\ call.args = <<1, 0>>
  /\ memo[0] = 1 /\ result = 1
  /\ Len(meshes) = 2 /\ Held(0) = 1

\* C2: for meshes a and b that were each given a material (addMesh with a
\* material index, or setMaterial), haveSameMaterial(a, b) is true iff the last
\* such call for a and the last such call for b used the same material index.
C2_SameMaterialIffSameIndex ==
  \A a \in MeshIndices, b \in MeshIndices :
     (given[a + 1] # Undefined /\ given[b + 1] # Undefined)
        => /\ haveSameMaterial(State, a, b).outcome = "ok"
           /\ haveSameMaterial(State, a, b).result
                 = (given[a + 1] = given[b + 1])

\* Two meshes given the same material, one by addMesh and one by setMaterial,
\* while the renderable materials they carry differ.
C2_Witness ==
  /\ Len(meshes) = 2 /\ given = <<1, 1>>
  /\ Did("setMaterial") /\ call.args = <<0, 1>>
  /\ meshes[1].mesh.material # meshes[2].mesh.material

C4_Isolation ==
  [][ Did("setTexture")' =>
        LET a == call'.args[1]
        IN  /\ \A k \in MaterialEntries :
                  k # Held(a) => materials'[k + 1] = materials[k + 1]
            /\ \A b \in MeshIndices :
                  (Held(b) # Undefined /\ Held(b) # Held(a)
                   /\ meshes[b + 1].mesh.material # Null)
                     => engine'[meshes[b + 1].mesh.material]
                          = engine[meshes[b + 1].mesh.material]
            /\ meshes' = meshes
    ]_vars

\* C5: a completed setMaterial(m, i) makes entry i the material of mesh m, sets
\* the renderable mesh's material to entry i's handle and returns entry i's
\* remembered texture index; material entries, texture entries, the textures
\* applied and every other mesh are unchanged.
C5_SetMaterial ==
  [][ Did("setMaterial")' =>
        LET m == call'.args[1]
            i == call'.args[2]
        IN  /\ m \in MeshIndices /\ i \in MaterialEntries
            /\ meshes'[m + 1].materialData = i
            /\ meshes'[m + 1].mesh.material = materials[i + 1].material
            /\ result' = materials[i + 1].textureIndex
            /\ materials' = materials /\ textures' = textures
            /\ engine' = engine
            /\ Len(meshes') = Len(meshes)
            /\ \A b \in MeshIndices : b # m => meshes'[b + 1] = meshes[b + 1]
    ]_vars

\* setMaterial(0, 1) returned texture 1 for a mesh that carried the loader's
\* material, the other mesh keeping entry 0.
C5_Witness ==
  /\ Did("setMaterial") /\ call.args = <<0, 1>> /\ result = 1
  /\ Len(meshes) = 2 /\ Held(1) = 0 /\ Held(0) = 1
  /\ meshes[1].mesh.material = materials[2].material

\* C6: a completed setTexture(m, t) on a mesh given material index i (by
\* addMesh or setMaterial) sets entry i's texture index to t and applies
\* texture entry t's handles to mesh m's material handle, which is the
\* renderable material of entry i.
C6_SetTexture ==
  Did("setTexture") =>
     LET m == call.args[1]
         t == call.args[2]
         i == given[m + 1]
     IN  i # Undefined =>
           /\ materials[i + 1].textureIndex = t
           /\ engine[meshes[m + 1].mesh.material]
                = [diffuseTexture |-> textures[t + 1].diffuseTexture,
                   bumpTexture |-> textures[t + 1].bumpTexture]
           /\ meshes[m + 1].mesh.material = materials[i + 1].material

\* C7: addMesh(mesh, i) with a valid i appends an entry holding material entry
\* i and sets the mesh handle's material to entry i's handle; addMesh(mesh)
\* appends an entry with no material.
C7_AddMesh ==
  Did("addMesh") =>
     LET i == call.args[2]
         added == meshes[Len(meshes)]
     IN  /\ i \in MaterialEntries =>
              /\ added.materialData = i
              /\ added.mesh.material = materials[i + 1].material
         /\ i = Undefined => added.materialData = Undefined

C9_NoError == outcome = "ok"

C11_SentinelFirst ==
  /\ [](/\ textures[1].name = "None"
        /\ textures[1].diffuseTexture = Null
        /\ textures[1].bumpTexture = Null)
  /\ [][ /\ \A k \in 1..Len(textures) :
               Len(textures') >= k /\ textures'[k] = textures[k]
         /\ Did("addTexture")' =>
               textures'[Len(textures')] =
                  [name |-> TextureName(Len(textures)),
                   diffuseTexture |-> IF call'.args[1] = Undefined THEN Null
                                      ELSE call'.args[1],
                   bumpTexture |-> IF call'.args[2] = Undefined THEN Null
                                   ELSE call'.args[2]]
       ]_vars

\* A texture with handles was added, then applied by setTexture to a mesh that
\* setMaterial gave a material.
C11_Witness ==
  /\ Did("setTexture") /\ call.args = <<0, 1>>
  /\ Len(textures) = 2 /\ textures[2].diffuseTexture = DiffuseHandle(1)
  /\ Len(materials) = 2 /\ given = <<1>>

\* C12: on the page, once both meshes are registered, each texture dropdown
\* shows the texture index remembered by the material entry its mesh holds, and
\* each material dropdown shows the index of the material its mesh holds (pot
\* is mesh 0, lid is mesh 1).
C12_DropdownsInSync ==
  (loaded /\ Len(meshes) = 2 /\ Held(0) # Undefined /\ Held(1) # Undefined) =>
     /\ potMat = Held(0)
     /\ lidMat = Held(1)
     /\ potTex = materials[Held(0) + 1].textureIndex
     /\ lidTex = materials[Held(1) + 1].textureIndex

\* C13: on the page (each material registered once with no textures applied,
\* meshes registered by addMesh with a material index), the diffuse and bump
\* handles applied to every material entry's renderable material are those of
\* the texture entry at its remembered index, and every mesh's renderable
\* material is the handle of the material entry the mesh holds.
C13_RenderedAsRemembered ==
  /\ \A k \in MaterialEntries :
        engine[materials[k + 1].material] =
           [diffuseTexture |-> textures[materials[k + 1].textureIndex + 1].diffuseTexture,
            bumpTexture |-> textures[materials[k + 1].textureIndex + 1].bumpTexture]
  /\ \A m \in MeshIndices :
        Held(m) # Undefined =>
           meshes[m + 1].mesh.material = materials[Held(m) + 1].material

\* C14: when addMesh, setMaterial or setTexture ends with an error, the three
\* registries, every mesh's material assignment, every material entry's
\* texture index and the textures applied to every renderable material are as
\* they were before the call.
C14_NoPartialEffect ==
  [][ (outcome' = "TypeError"
       /\ call'.op \in {"addMesh", "setMaterial", "setTexture"})
         => UNCHANGED <<meshes, materials, textures, engine>>
    ]_vars

\* C15 as stated: haveSameMaterial(a, b) is true for two different meshes only
\* when both hold a material entry.
C15_OnlyWithEntries ==
  \A a \in MeshIndices, b \in MeshIndices :
     (a # b /\ haveSameMaterial(State, a, b).result = TRUE)
        => (Held(a) # Undefined /\ Held(b) # Undefined)

\* C15 amended: haveSameMaterial(a, b) is true iff the two meshes were last
\* given the same material entry or were both given none (registered without
\* a material index, or with one out of range, and never assigned one).
C15_SameReference ==
  \A a \in MeshIndices, b \in MeshIndices :
     /\ haveSameMaterial(State, a, b).outcome = "ok"
     /\ haveSameMaterial(State, a, b).result = (given[a + 1] = given[b + 1])

\* Two meshes registered without a material, and haveSameMaterial returned true.
C15_Witness ==
  /\ Len(meshes) = 2 /\ given = <<Undefined, Undefined>>
  /\ haveSameMaterial(State, 0, 1).result = TRUE
  /\ Did("haveSameMaterial") /\ result = TRUE

\* C16: no registry ever shrinks; addMesh, addMaterial and addTexture each
\* append one entry to their own registry and leave the other two as they
\* were; a registered index keeps its material handle and its texture entry;
\* setMaterial, setTexture and haveSameMaterial change no registry's length.
C16_AppendOnly ==
  [][ /\ Len(meshes') >= Len(meshes)
      /\ Len(materials') >= Len(materials)
      /\ Len(textures') >= Len(textures)
      /\ \A k \in 1..Len(materials) :
            materials'[k].material = materials[k].material
      /\ \A k \in 1..Len(textures) : textures'[k] = textures[k]
      /\ call'.op = "addMesh" =>
            /\ Len(meshes') = Len(meshes) + 1
            /\ SubSeq(meshes', 1, Len(meshes)) = meshes
            /\ materials' = materials /\ textures' = textures
      /\ call'.op = "addMaterial" =>
            /\ Len(materials') = Len(materials) + 1
            /\ SubSeq(materials', 1, Len(materials)) = materials
            /\ materials'[Len(materials')].material = call'.args[1]
            /\ meshes' = meshes /\ textures' = textures
      /\ call'.op = "addTexture" =>
            /\ Len(textures') = Len(textures) + 1
            /\ meshes' = meshes /\ materials' = materials
      /\ call'.op \in {"setMaterial", "setTexture", "haveSameMaterial"} =>
            /\ Len(meshes') = Len(meshes)
            /\ Len(materials') = Len(materials)
            /\ Len(textures') = Len(textures)
    ]_vars

\* setMaterial gave mesh 1 the second material with all registries filled.
C16_Witness ==
  /\ Did("setMaterial") /\ call.args = <<1, 1>>
  /\ Len(meshes) = 2 /\ Len(materials) = 2 /\ Len(textures) = 2

====
